---- MODULE Spec2Model ----
(***************************************************************************)
(* The tool handlers of mcp_pinecone/tools.py and the resource handlers of *)
(* mcp_pinecone/server.py, over a vector index partitioned by namespace.   *)
(*                                                                         *)
(* One action is one whole handler call: it records the arguments, the     *)
(* external calls the handler makes in order (calls), the chunks it logs a *)
(* warning for, what it returns, whether an exception left it, and the     *)
(* index before and after. Respond ends the request: nothing of a request  *)
(* but the index survives it.                                              *)
(***************************************************************************)
EXTENDS Integers, Sequences, FiniteSets, TLC

VARIABLES
    store,      \* namespace -> (record id -> stored vector): the index
    before,     \* the index when the current request arrived
    op,         \* the handler serving the current request, "idle" between requests
    args,       \* its arguments
    fault,      \* the external call that raises during it, if any
    calls,      \* the external calls it made, in order, with what they returned
    warnings,   \* the chunks it logged a warning for
    result,     \* what it returned
    raised,     \* TRUE when an exception left the handler
    first       \* when the caller repeats a process-document call: the first call

vars == <<store, before, op, args, fault, calls, warnings, result, raised, first>>

----------------------------------------------------------------------------
(* Bounds of the model *)

MaxChunks == 3
MaxTopK == 2

(* Optional[...] arguments: None, or Some(value) *)
None == <<>>
Some(x) == <<x>>

DocumentIds == {"d1"}

DefaultNamespace == ""
Namespaces == {DefaultNamespace, "n1"}
NamespaceArgs == {None, Some("n1")}

(* Document metadata: a dict, kept in insertion order as <<key, value>> pairs *)
Metadatas == { << <<"title", "T">>, <<"category", "c1">> >> }

(* The text of a document, as the segments the chunker cuts it into: the   *)
(* i-th segment is Alphabet[i], or empty.                                  *)
Alphabet == <<"a", "b", "c", "d", "e">>

Texts ==
    UNION { { [i \in 1..n |-> IF i \in blank THEN "" ELSE Alphabet[i]] :
                blank \in SUBSET (1..n) } : n \in 0..MaxChunks }

----------------------------------------------------------------------------
(* dict helpers *)

Keys(md) == { md[i][1] : i \in 1..Len(md) }

Get(md, key, default) ==
    IF key \in Keys(md)
    THEN (CHOOSE p \in { md[i] : i \in 1..Len(md) } : p[1] = key)[2]
    ELSE default

(* d[key] = value: an existing key keeps its place, a new key goes last *)
Put(md, key, value) ==
    IF key \in Keys(md)
    THEN [i \in 1..Len(md) |-> IF md[i][1] = key THEN <<key, value>> ELSE md[i]]
    ELSE Append(md, <<key, value>>)

----------------------------------------------------------------------------
(* The chunker and the Pinecone client *)

(* {document_id}-{ordinal} *)
ChunkId(document_id, ordinal) == <<document_id, "-", ordinal>>

chunk_document(document_id, text, metadata) ==
    [i \in 1..Len(text) |->
        [id       |-> ChunkId(document_id, i - 1),
         content  |-> text[i],
         metadata |-> Put(metadata, "chunk_index", i - 1)]]

generate_embeddings(content) == <<"embedding", content>>

Partition(namespace) == IF namespace = None THEN DefaultNamespace ELSE namespace[1]

(* what the index keeps of a PineconeRecord: the text goes under "text" *)
StoredVector(record) ==
    [id       |-> record.id,
     values   |-> record.embedding,
     metadata |-> Put(record.metadata, "text", record.text)]

RecordIds(records) == { records[i].id : i \in 1..Len(records) }

LastWith(records, id) ==
    records[CHOOSE i \in 1..Len(records) :
                /\ records[i].id = id
                /\ \A j \in (i + 1)..Len(records) : records[j].id # id]

(* insert-or-overwrite by identifier, in one partition *)
upsert_records(st, records, namespace) ==
    LET ns  == Partition(namespace)
        old == st[ns]
        new == [id \in DOMAIN old \cup RecordIds(records) |->
                   IF id \in RecordIds(records)
                   THEN StoredVector(LastWith(records, id))
                   ELSE old[id]]
    IN  [st EXCEPT ![ns] = new]

----------------------------------------------------------------------------
(* Results. A text is a sequence of lines, a line a tuple of its parts.    *)

TextResult(text) == [type |-> "text", text |-> text]

ErrorText(e) == << <<"Error: ", e>> >>

IsErrorResult(r) == r.text # <<>> /\ r.text[1][1] = "Error: "

(* an external call: what it was given, and what it returned unless it raised *)
Call(fn, a, ret) == [fn |-> fn, args |-> a, ret |-> ret]
Returned(value) == [ok |-> TRUE, value |-> value]
Raised == [ok |-> FALSE, value |-> <<>>]

NoFault == [at |-> "none", k |-> 0]
Fault(at) == [at |-> at, k |-> 0]

(* as CatchTool, but the exception is raised again *)
CatchToolReraise(body) ==
    [result |-> TextResult(body.text), raised |-> body.exc # ""]

(* except Exception as e: return {"type": "text", "text": f"Error: {str(e)}"} *)
CatchTool(body) ==
    [result |-> IF body.exc # "" THEN TextResult(ErrorText(body.exc))
                ELSE TextResult(body.text),
     raised |-> FALSE]

----------------------------------------------------------------------------
(* process-document *)

PineconeRecord(id, embedding, text, metadata) ==
    [id |-> id, embedding |-> embedding, text |-> text, metadata |-> metadata]

(* as BuildRecord, but the document id is the record id *)
BuildRecordDocumentId(chunk, embedding) ==
    PineconeRecord(<<chunk.id[1], "-", 0>>, embedding, chunk.content, chunk.metadata)

(* record = PineconeRecord(id=chunk_id, embedding=embedding, text=content, *)
(*                         metadata=chunk_metadata)                        *)
BuildRecord(chunk, embedding) ==
    PineconeRecord(chunk.id, embedding, chunk.content, chunk.metadata)

(* as UpsertStep, but the records the document had are deleted first *)
UpsertStepReplacing(st, embedded_chunks, namespace) ==
    LET ns   == Partition(namespace)
        docs == { embedded_chunks[i].id[1] : i \in 1..Len(embedded_chunks) }
        kept == { id \in DOMAIN st[ns] : id[1] \notin docs }
    IN  upsert_records([st EXCEPT ![ns] = [id \in kept |-> st[ns][id]]],
                       embedded_chunks, namespace)

(* as UpsertStep, but into the default partition *)
UpsertStepDefaultPartition(st, embedded_chunks, namespace) ==
    upsert_records(st, embedded_chunks, None)

(* pinecone_client.upsert_records(embedded_chunks, namespace=namespace) *)
UpsertStep(st, embedded_chunks, namespace) ==
    upsert_records(st, embedded_chunks, namespace)

(* as InvalidChunk, but only a missing id makes a chunk invalid *)
InvalidChunkIdOnly(chunk) == chunk.id = <<>>

(* if not content or not chunk_id *)
InvalidChunk(chunk) == chunk.content = "" \/ chunk.id = <<>>

(* The loop over the chunks, from chunk i on, with the records built, the  *)
(* calls made and the warnings logged so far. The f.k-th call of           *)
(* generate_embeddings raises when f.at = "embed".                         *)
RECURSIVE EmbedLoop(_, _, _, _, _, _)
EmbedLoop(chunks, i, embedded_chunks, made, warned, f) ==
    IF i > Len(chunks)
    THEN [embedded_chunks |-> embedded_chunks, calls |-> made,
          warnings |-> warned, raised |-> FALSE]
    ELSE LET chunk == chunks[i]
         IN  IF InvalidChunk(chunk)
             THEN EmbedLoop(chunks, i + 1, embedded_chunks, made,
                            Append(warned, chunk.id), f)
             ELSE IF f.at = "embed" /\ f.k = Len(embedded_chunks) + 1
             THEN [embedded_chunks |-> embedded_chunks,
                   calls |-> Append(made, Call("generate_embeddings",
                                               <<chunk.content>>, Raised)),
                   warnings |-> warned, raised |-> TRUE]
             ELSE LET embedding == generate_embeddings(chunk.content)
                  IN  EmbedLoop(chunks, i + 1,
                                Append(embedded_chunks, BuildRecord(chunk, embedding)),
                                Append(made, Call("generate_embeddings",
                                                  <<chunk.content>>, Returned(embedding))),
                                warned, f)

(* as ProcessDocumentBody, but a failed embedding ends the loop and what   *)
(* was embedded so far is written                                          *)
ProcessDocumentBodyPartialWrite(st, document_id, text, metadata, namespace, f) ==
    LET chunkArgs == <<document_id, text, metadata>>
    IN  IF f.at = "chunker"
        THEN [store |-> st, calls |-> <<Call("chunk_document", chunkArgs, Raised)>>,
              warnings |-> <<>>, exc |-> "ChunkingFailed", text |-> <<>>]
        ELSE
        LET chunks == chunk_document(document_id, text, metadata)
            loop   == EmbedLoop(chunks, 1, <<>>,
                                <<Call("chunk_document", chunkArgs, Returned(chunks))>>,
                                <<>>, f)
            upsertArgs == <<loop.embedded_chunks, namespace>>
        IN  IF loop.embedded_chunks = <<>>
            THEN [store |-> st, calls |-> loop.calls, warnings |-> loop.warnings,
                  exc |-> "", text |-> ErrorText("No embedded chunks found")]
            ELSE [store |-> UpsertStep(st, loop.embedded_chunks, namespace),
                  calls |-> Append(loop.calls,
                                   Call("upsert_records", upsertArgs, Returned("ack"))),
                  warnings |-> loop.warnings,
                  exc |-> IF loop.raised THEN "EmbeddingFailed" ELSE "",
                  text |-> << <<"Successfully processed document. The document ID is ",
                                document_id>> >>]

(* The body of the try block: the index it leaves, its calls and warnings, *)
(* and the text it returns or the exception it raises.                     *)
ProcessDocumentBody(st, document_id, text, metadata, namespace, f) ==
    LET chunkArgs == <<document_id, text, metadata>>
    IN  IF f.at = "chunker"
        THEN [store |-> st, calls |-> <<Call("chunk_document", chunkArgs, Raised)>>,
              warnings |-> <<>>, exc |-> "ChunkingFailed", text |-> <<>>]
        ELSE
        LET chunks == chunk_document(document_id, text, metadata)
            loop   == EmbedLoop(chunks, 1, <<>>,
                                <<Call("chunk_document", chunkArgs, Returned(chunks))>>, <<>>, f)
            upsertArgs == <<loop.embedded_chunks, namespace>>
        IN  IF loop.raised
            THEN [store |-> st, calls |-> loop.calls, warnings |-> loop.warnings,
                  exc |-> "EmbeddingFailed", text |-> <<>>]
            ELSE IF loop.embedded_chunks = <<>>
            THEN [store |-> st, calls |-> loop.calls, warnings |-> loop.warnings,
                  exc |-> "", text |-> ErrorText("No embedded chunks found")]
            ELSE IF f.at = "upsert"
            THEN [store |-> st,
                  calls |-> Append(loop.calls, Call("upsert_records", upsertArgs, Raised)),
                  warnings |-> loop.warnings,
                  exc |-> "StoreWriteFailed", text |-> <<>>]
            ELSE [store |-> UpsertStep(st, loop.embedded_chunks, namespace),
                  calls |-> Append(loop.calls, Call("upsert_records", upsertArgs, Returned("ack"))),
                  warnings |-> loop.warnings,
                  exc |-> "",
                  text |-> << <<"Successfully processed document. The document ID is ",
                                document_id>> >>]

process_document_tool(st, document_id, text, metadata, namespace, f) ==
    LET body == ProcessDocumentBody(st, document_id, text, metadata, namespace, f)
        out  == CatchTool(body)
    IN  [store |-> body.store, calls |-> body.calls, warnings |-> body.warnings,
         result |-> out.result, raised |-> out.raised]

ValidCount(text) == Cardinality({ i \in 1..Len(text) : text[i] # "" })

(* The faults that can happen on a text: the k-th embedding call exists,   *)
(* and upsert is reached only with a record to write.                      *)
ProcessFaults(text) ==
    {NoFault, Fault("chunker")}
        \cup { [at |-> "embed", k |-> k] : k \in 1..ValidCount(text) }
        \cup (IF ValidCount(text) > 0 THEN {Fault("upsert")} ELSE {})

NoFirst == [seen |-> FALSE, result |-> TextResult(<<>>), calls |-> <<>>]

Serve(name, a, f, r) ==
    /\ store' = r.store
    /\ before' = store
    /\ op' = name
    /\ args' = a
    /\ fault' = f
    /\ calls' = r.calls
    /\ warnings' = r.warnings
    /\ result' = r.result
    /\ raised' = r.raised

ProcessDocument ==
    /\ op = "idle"
    /\ \E document_id \in DocumentIds, text \in Texts, metadata \in Metadatas,
          namespace \in NamespaceArgs :
         \E f \in ProcessFaults(text) :
           Serve("process-document",
                 [document_id |-> document_id, text |-> text,
                  metadata |-> metadata, namespace |-> namespace],
                 f,
                 process_document_tool(store, document_id, text, metadata, namespace, f))
    /\ first' = NoFirst

(* The caller sends the process-document call it has just made once more,  *)
(* with identical arguments.                                               *)
ProcessDocumentAgain ==
    /\ op = "process-document"
    /\ ~first.seen
    /\ \E f \in ProcessFaults(args.text) :
           Serve("process-document", args, f,
                 process_document_tool(store, args.document_id, args.text,
                                       args.metadata, args.namespace, f))
    /\ first' = [seen |-> TRUE, result |-> result, calls |-> calls]

----------------------------------------------------------------------------
(* semantic-search *)

(* as BuildFilter, but each bound of the range is applied when given *)
BuildFilterPartialRange(category, tags, date_range) ==
    LET f1 == IF category # None /\ category[1] # ""
              THEN << <<"category", category[1]>> >> ELSE <<>>
        f2 == IF tags # None /\ tags[1] # <<>>
              THEN Put(f1, "tags", [in |-> tags[1]]) ELSE f1
    IN  IF /\ date_range # None
           /\ date_range[1] # <<>>
           /\ ("start" \in Keys(date_range[1]) \/ "end" \in Keys(date_range[1]))
        THEN Put(f2, "date", [gte |-> Get(date_range[1], "start", 0),
                             lte |-> Get(date_range[1], "end", 99999999)])
        ELSE f2

(* if category: / if tags: / if date_range and "start" in ... and "end" in ... *)
BuildFilter(category, tags, date_range) ==
    LET f1 == IF category # None /\ category[1] # ""
              THEN << <<"category", category[1]>> >> ELSE <<>>
        f2 == IF tags # None /\ tags[1] # <<>>
              THEN Put(f1, "tags", [in |-> tags[1]]) ELSE f1
    IN  IF /\ date_range # None
           /\ date_range[1] # <<>>
           /\ "start" \in Keys(date_range[1])
           /\ "end" \in Keys(date_range[1])
        THEN Put(f2, "date", [gte |-> Get(date_range[1], "start", 0),
                             lte |-> Get(date_range[1], "end", 0)])
        ELSE f2

(* The index's side of a filter: equality, membership, inclusive range;    *)
(* a record lacking the field does not match.                              *)
MatchesFilter(filter, metadata) ==
    /\ "category" \in Keys(filter) =>
          /\ "category" \in Keys(metadata)
          /\ Get(metadata, "category", "") = Get(filter, "category", "")
    /\ "tags" \in Keys(filter) =>
          /\ "tags" \in Keys(metadata)
          /\ \E i \in 1..Len(Get(metadata, "tags", <<>>)) :
               \E j \in 1..Len(Get(filter, "tags", <<>>).in) :
                  Get(metadata, "tags", <<>>)[i] = Get(filter, "tags", <<>>).in[j]
    /\ "date" \in Keys(filter) =>
          /\ "date" \in Keys(metadata)
          /\ Get(filter, "date", 0).gte <= Get(metadata, "date", 0)
          /\ Get(metadata, "date", 0) <= Get(filter, "date", 0).lte

(* str.strip(): of the texts of the model only " e " has white space to lose *)
Strip(text) == IF text = " e " THEN "e" ELSE text

Code(content) ==
    IF Strip(content) = "" THEN 0
    ELSE CHOOSE i \in 1..Len(Alphabet) : Alphabet[i] = Strip(content)

Abs(x) == IF x < 0 THEN -x ELSE x

(* similarity of two embeddings, in 1/10000 *)
Similarity(u, v) == 9996 - 1249 * Abs(Code(u[2]) - Code(v[2]))

(* a total order of the record ids, for the index's tie-break *)
Rank(id) == (IF id[1] \in DocumentIds THEN 0 ELSE 100) + id[3]

RECURSIVE Ranked(_, _, _, _)
Ranked(ids, part, qvec, tie) ==
    IF ids = {} THEN <<>>
    ELSE LET s(id) == Similarity(qvec, part[id].values)
             top == CHOOSE x \in ids : \A y \in ids :
                       \/ s(x) > s(y)
                       \/ /\ s(x) = s(y)
                          /\ IF tie = "asc" THEN Rank(x) <= Rank(y)
                             ELSE Rank(x) >= Rank(y)
         IN  <<[id |-> top, score |-> s(top), metadata |-> part[top].metadata]>>
                \o Ranked(ids \ {top}, part, qvec, tie)

Min(a, b) == IF a < b THEN a ELSE b

(* embed the query, then the top_k best matches of the partition that pass *)
(* the filter, best first; the index breaks ties its own way               *)
search_records(st, query, top_k, filter, namespace, tie) ==
    LET part == st[Partition(namespace)]
        ids  == { id \in DOMAIN part : MatchesFilter(filter, part[id].metadata) }
        all  == Ranked(ids, part, generate_embeddings(query), tie)
    IN  [matches |-> SubSeq(all, 1, Min(top_k, Len(all)))]

(* f"{score:.3f}": to 1/1000, rounded *)
Format3(score) == (score + 5) \div 10

(* as FormatMatches, but the matches are written last first *)
RECURSIVE FormatMatchesReversed(_, _)
FormatMatchesReversed(matches, i) ==
    IF i > Len(matches) THEN <<>>
    ELSE LET match == matches[Len(matches) + 1 - i]
         IN  << <<"Result ", i, " | Similarity: ", Format3(match.score),
                  " | Document ID: ", match.id>>,
                <<Strip(Get(match.metadata, "text", ""))>>,
                <<"----------">>,
                <<"">> >> \o FormatMatchesReversed(matches, i + 1)

RECURSIVE FormatMatches(_, _)
FormatMatches(matches, i) ==
    IF i > Len(matches) THEN <<>>
    ELSE LET match == matches[i]
         IN  << <<"Result ", i, " | Similarity: ", Format3(match.score),
                  " | Document ID: ", match.id>>,
                <<Strip(Get(match.metadata, "text", ""))>>,
                <<"----------">>,
                <<"">> >> \o FormatMatches(matches, i + 1)

SemanticSearchBody(st, query, top_k, namespace, category, tags, date_range, f, tie) ==
    LET filters == BuildFilter(category, tags, date_range)
        a == [query |-> query, top_k |-> top_k, filter |-> filters,
              include_metadata |-> TRUE, namespace |-> namespace]
    IN  IF f.at = "search" \/ top_k < 1
        THEN [calls |-> <<Call("search_records", a, Raised)>>,
              exc |-> IF f.at = "search" THEN "StoreReadFailed" ELSE "InvalidTopK",
              text |-> <<>>]
        ELSE LET results == search_records(st, query, top_k, filters, namespace, tie)
                 matches == results.matches
             IN  [calls |-> <<Call("search_records", a, Returned(results))>>,
                  exc |-> "",
                  text |-> << <<"Retrieved Contexts:">>, <<"">> >>
                              \o FormatMatches(matches, 1)]

semantic_search_tool(st, query, top_k, namespace, category, tags, date_range, f, tie) ==
    LET body == SemanticSearchBody(st, query, top_k, namespace, category, tags,
                                   date_range, f, tie)
        out  == CatchTool(body)
    IN  [store |-> st, calls |-> body.calls, warnings |-> <<>>,
         result |-> out.result, raised |-> out.raised]

Queries == {"", "b"}
TopKs == 0..MaxTopK
Categories == {None, Some("c1")}
TagLists == {None, Some(<<"t1">>)}
DateRanges ==
    {None,
     Some(<< <<"start", 20240101>> >>),
     Some(<< <<"end", 20241231>> >>),
     Some(<< <<"start", 20240101>>, <<"end", 20241231>> >>)}

(* a failing index call, or the index answering with one of its tie-breaks *)
SearchOutcomes ==
    {[f |-> Fault("search"), tie |-> "asc"],
     [f |-> NoFault, tie |-> "asc"],
     [f |-> NoFault, tie |-> "desc"]}

SemanticSearch ==
    /\ op = "idle"
    /\ \E query \in Queries, top_k \in TopKs, namespace \in NamespaceArgs,
          category \in Categories, tags \in TagLists, date_range \in DateRanges,
          o \in SearchOutcomes :
         Serve("semantic-search",
               [query |-> query, top_k |-> top_k, namespace |-> namespace,
                category |-> category, tags |-> tags, date_range |-> date_range],
               o.f,
               semantic_search_tool(store, query, top_k, namespace, category, tags,
                                    date_range, o.f, o.tie))
    /\ first' = NoFirst

----------------------------------------------------------------------------
(* The index's point reads, listing and counters *)

(* id -> record, for the ids the partition holds *)
fetch_records(st, ids, namespace) ==
    LET part == st[Partition(namespace)]
    IN  [id \in { x \in DOMAIN part : \E i \in 1..Len(ids) : ids[i] = x } |-> part[id]]

RECURSIVE InRankOrder(_, _)
InRankOrder(ids, part) ==
    IF ids = {} THEN <<>>
    ELSE LET x == CHOOSE x \in ids : \A y \in ids : Rank(x) <= Rank(y)
         IN  <<[id |-> x, metadata |-> part[x].metadata]>> \o InRankOrder(ids \ {x}, part)

list_records(st, namespace) ==
    LET part == st[Partition(namespace)]
    IN  [vectors |-> InRankOrder(DOMAIN part, part)]

stats(st) ==
    [namespaces |-> [ns \in Namespaces |-> Cardinality(DOMAIN st[ns])]]

(* json.dumps *)
JsonDumps(value) == << <<"json", value>> >>

(* json.dumps({"error": ...}) *)
JsonError(e) == << <<"json-error", e>> >>

IsJsonError(r) == r.text # <<>> /\ r.text[1][1] = "json-error"

(* the result of a resource is the bare text *)
StrResult(text) == [type |-> "str", text |-> text]

(* except Exception as e: return json.dumps({"error": str(e)}, indent=2) *)
CatchResource(body) ==
    [result |-> IF body.exc # "" THEN StrResult(JsonError(body.exc))
                ELSE StrResult(body.text),
     raised |-> FALSE]

(* for key, value in metadata.items(): f"{key}: {value}" *)
MetadataLines(md, skip) ==
    LET kept == SelectSeq(md, LAMBDA p : p[1] \notin skip)
    IN  [i \in 1..Len(kept) |-> <<kept[i][1], ": ", kept[i][2]>>]

----------------------------------------------------------------------------
(* read-document *)

ReadDocumentBody(st, document_id, namespace, f) ==
    LET a == <<<<document_id>>, namespace>>
    IN  IF f.at = "fetch"
        THEN [calls |-> <<Call("fetch_records", a, Raised)>>,
              exc |-> "StoreReadFailed", text |-> <<>>]
        ELSE
        LET record == fetch_records(st, <<document_id>>, namespace)
            made   == <<Call("fetch_records", a, Returned(record))>>
        IN  IF document_id \notin DOMAIN record
            THEN [calls |-> made, exc |-> "",
                  text |-> << <<"Document ", document_id, " not found">> >>]
            ELSE LET metadata == record[document_id].metadata
                 IN  [calls |-> made, exc |-> "",
                      text |-> << <<"Document ID: ", document_id>>, <<"">> >>
                               \o (IF metadata # <<>>
                                   THEN << <<"Metadata:">> >> \o MetadataLines(metadata, {})
                                   ELSE <<>>)]

read_document_tool(st, document_id, namespace, f) ==
    LET body == ReadDocumentBody(st, document_id, namespace, f)
        out  == CatchTool(body)
    IN  [store |-> st, calls |-> body.calls, warnings |-> <<>>,
         result |-> out.result, raised |-> out.raised]

(* the ids a caller may ask for: those of the chunks, stored or not *)
RecordIdArgs ==
    { ChunkId(d, n) : d \in DocumentIds \cup {"d2"}, n \in 0..(MaxChunks - 1) }

ReadFaults == {NoFault, Fault("fetch")}

ReadDocument ==
    /\ op = "idle"
    /\ \E document_id \in RecordIdArgs, namespace \in NamespaceArgs, f \in ReadFaults :
         Serve("read-document",
               [document_id |-> document_id, namespace |-> namespace],
               f, read_document_tool(store, document_id, namespace, f))
    /\ first' = NoFirst

----------------------------------------------------------------------------
(* list-documents and pinecone-stats *)

ListDocumentsBody(st, namespace, f) ==
    LET a == <<namespace>>
    IN  IF f.at = "list"
        THEN [calls |-> <<Call("list_records", a, Raised)>>,
              exc |-> "StoreReadFailed", text |-> <<>>]
        ELSE LET results == list_records(st, namespace)
             IN  [calls |-> <<Call("list_records", a, Returned(results))>>,
                  exc |-> "", text |-> JsonDumps(results)]

list_documents_tool(st, namespace, f) ==
    LET body == ListDocumentsBody(st, namespace, f)
        out  == CatchTool(body)
    IN  [store |-> st, calls |-> body.calls, warnings |-> <<>>,
         result |-> out.result, raised |-> out.raised]

ListDocuments ==
    /\ op = "idle"
    /\ \E ns \in Namespaces, f \in {NoFault, Fault("list")} :
         Serve("list-documents", [namespace |-> Some(ns)], f,
               list_documents_tool(store, Some(ns), f))
    /\ first' = NoFirst

PineconeStatsBody(st, f) ==
    IF f.at = "stats"
    THEN [calls |-> <<Call("stats", <<>>, Raised)>>,
          exc |-> "StoreReadFailed", text |-> <<>>]
    ELSE [calls |-> <<Call("stats", <<>>, Returned(stats(st)))>>,
          exc |-> "", text |-> JsonDumps(stats(st))]

pinecone_stats_tool(st, f) ==
    LET body == PineconeStatsBody(st, f)
        out  == CatchTool(body)
    IN  [store |-> st, calls |-> body.calls, warnings |-> <<>>,
         result |-> out.result, raised |-> out.raised]

PineconeStats ==
    /\ op = "idle"
    /\ \E f \in {NoFault, Fault("stats")} :
         Serve("pinecone-stats", [namespace |-> None], f, pinecone_stats_tool(store, f))
    /\ first' = NoFirst

----------------------------------------------------------------------------
(* The resources pinecone://vectors/{vector_id} and pinecone://vectors *)

GetVectorBody(st, vector_id, f) ==
    LET a == <<<<vector_id>>, None>>
    IN  IF f.at = "client"
        THEN [calls |-> <<Call("PineconeClient", <<>>, Raised)>>,
              exc |-> "ClientFailed", text |-> <<>>]
        ELSE IF f.at = "fetch"
        THEN [calls |-> <<Call("PineconeClient", <<>>, Returned("client")),
                          Call("fetch_records", a, Raised)>>,
              exc |-> "StoreReadFailed", text |-> <<>>]
        ELSE
        LET record == fetch_records(st, <<vector_id>>, None)
            made   == <<Call("PineconeClient", <<>>, Returned("client")),
                        Call("fetch_records", a, Returned(record))>>
        IN  IF vector_id \notin DOMAIN record
            THEN [calls |-> made, exc |-> "",
                  text |-> JsonError(<<"Vector not found: ", vector_id>>)]
            ELSE LET vector_data == record[vector_id]
                     metadata    == vector_data.metadata
                 IN  [calls |-> made, exc |-> "",
                      text |-> (IF "title" \in Keys(metadata)
                                THEN << <<"Title: ", Get(metadata, "title", "")>> >>
                                ELSE <<>>)
                               \o << <<"ID: ", vector_data.id>> >>
                               \o MetadataLines(metadata, {"title", "text", "content_type"})
                               \o << <<"">> >>
                               \o (IF "text" \in Keys(metadata)
                                   THEN << <<Get(metadata, "text", "")>> >>
                                   ELSE <<>>)]

get_vector_resource(st, vector_id, f) ==
    LET body == GetVectorBody(st, vector_id, f)
        out  == CatchResource(body)
    IN  [store |-> st, calls |-> body.calls, warnings |-> <<>>,
         result |-> out.result, raised |-> out.raised]

ResourceFaults == {NoFault, Fault("client"), Fault("fetch")}

GetVectorResource ==
    /\ op = "idle"
    /\ \E vector_id \in RecordIdArgs, f \in ResourceFaults :
         Serve("get-vector-resource", [vector_id |-> vector_id, namespace |-> None],
               f, get_vector_resource(store, vector_id, f))
    /\ first' = NoFirst

(* metadata.get("text", "")[:100] + "..." if metadata.get("text") else "" *)
Description(metadata) ==
    IF Get(metadata, "text", "") # ""
    THEN <<Get(metadata, "text", ""), "...">>
    ELSE <<>>

Summary(record) ==
    [uri         |-> <<"pinecone://vectors/", record.id>>,
     name        |-> Get(record.metadata, "title", <<"Vector ", record.id>>),
     description |-> Description(record.metadata),
     metadata    |-> record.metadata,
     mimeType    |-> Get(record.metadata, "content_type", "text/plain")]

ListVectorsBody(st, f) ==
    IF f.at = "client"
    THEN [calls |-> <<Call("PineconeClient", <<>>, Raised)>>,
          exc |-> "ClientFailed", text |-> <<>>]
    ELSE IF f.at = "list"
    THEN [calls |-> <<Call("PineconeClient", <<>>, Returned("client")),
                      Call("list_records", <<None>>, Raised)>>,
          exc |-> "StoreReadFailed", text |-> <<>>]
    ELSE LET records   == list_records(st, None)
             resources == [i \in 1..Len(records.vectors) |-> Summary(records.vectors[i])]
         IN  [calls |-> <<Call("PineconeClient", <<>>, Returned("client")),
                          Call("list_records", <<None>>, Returned(records))>>,
              exc |-> "", text |-> JsonDumps(resources)]

list_vectors_resource(st, f) ==
    LET body == ListVectorsBody(st, f)
        out  == CatchResource(body)
    IN  [store |-> st, calls |-> body.calls, warnings |-> <<>>,
         result |-> out.result, raised |-> out.raised]

ListVectorsResource ==
    /\ op = "idle"
    /\ \E f \in {NoFault, Fault("client"), Fault("list")} :
         Serve("list-vectors-resource", [namespace |-> None], f,
               list_vectors_resource(store, f))
    /\ first' = NoFirst

----------------------------------------------------------------------------

(* The response is sent; the server waits for the next request. *)
Respond ==
    /\ op # "idle"
    /\ op' = "idle"
    /\ args' = <<>>
    /\ fault' = NoFault
    /\ calls' = <<>>
    /\ warnings' = <<>>
    /\ result' = TextResult(<<>>)
    /\ raised' = FALSE
    /\ first' = NoFirst
    /\ before' = store
    /\ UNCHANGED store

EmptyStore == [ns \in Namespaces |-> <<>>]

(* a record an earlier run of the server left in the default partition *)
EarlierVector ==
    [id       |-> ChunkId("d2", 0),
     values   |-> generate_embeddings(" e "),
     metadata |-> << <<"category", "c2">>, <<"tags", <<"t1", "t2">> >>,
                     <<"date", 20240601>>, <<"chunk_index", 0>>, <<"text", " e ">> >>]

(* the index is external and outlives the server: what it may hold at start-up *)
InitStores ==
    {EmptyStore,
     [EmptyStore EXCEPT ![DefaultNamespace] = (EarlierVector.id :> EarlierVector)],
     [EmptyStore EXCEPT !["n1"] = (EarlierVector.id :> EarlierVector)]}

Init ==
    /\ store \in InitStores
    /\ before = store
    /\ op = "idle"
    /\ args = <<>>
    /\ fault = NoFault
    /\ calls = <<>>
    /\ warnings = <<>>
    /\ result = TextResult(<<>>)
    /\ raised = FALSE
    /\ first = NoFirst

Next ==
    \/ ProcessDocument
    \/ SemanticSearch
    \/ ReadDocument
    \/ ListDocuments
    \/ PineconeStats
    \/ GetVectorResource
    \/ ListVectorsResource
    \/ ProcessDocumentAgain
    \/ Respond

Spec == Init /\ [][Next]_vars

----------------------------------------------------------------------------
(* What the claims read of a process-document call *)

Ingested == op = "process-document"

Succeeded(r) == r.text # <<>> /\ r.text[1][1] # "Error: "

CallsOf(cs, fn) == { i \in 1..Len(cs) : cs[i].fn = fn }

(* the chunks the chunker returned to this call *)
ChunksOf(cs) == IF cs # <<>> /\ cs[1].fn = "chunk_document" /\ cs[1].ret.ok
                THEN cs[1].ret.value ELSE <<>>

Surviving(chunks) == SelectSeq(chunks, LAMBDA c : c.content # "" /\ c.id # <<>>)

Skipped(chunks) == SelectSeq(chunks, LAMBDA c : c.content = "" \/ c.id = <<>>)

(* the batch given to upsert_records, empty when it was not called *)
BatchOf(cs) == IF CallsOf(cs, "upsert_records") = {} THEN <<>>
               ELSE cs[CHOOSE u \in CallsOf(cs, "upsert_records") : TRUE].args[1]

(* the ids the call wrote *)
WrittenIds(cs) ==
    IF \E u \in CallsOf(cs, "upsert_records") : cs[u].ret.ok
    THEN RecordIds(BatchOf(cs)) ELSE {}

TargetPartition == Partition(args.namespace)

(* C1: in every process-document call upsert_records is called at most     *)
(* once, as the last call, with one record for every surviving chunk, each *)
(* built from the embedding a successful generate_embeddings call returned *)
(* for that chunk; when an embedding call raises, the call returns an      *)
(* error, upsert_records is not called and the index is as it was.         *)
C1_SingleUpsertAfterAllEmbeddings ==
    Ingested =>
      LET ups  == CallsOf(calls, "upsert_records")
          embs == CallsOf(calls, "generate_embeddings")
          surv == Surviving(ChunksOf(calls))
      IN  /\ Cardinality(ups) <= 1
          /\ \A u \in ups :
               /\ u = Len(calls)
               /\ embs = 2..(Len(surv) + 1)
               /\ \A i \in embs : /\ calls[i].ret.ok
                                  /\ calls[i].args = <<surv[i - 1].content>>
               /\ Len(calls[u].args[1]) = Len(surv)
               /\ \A j \in 1..Len(surv) :
                    /\ calls[u].args[1][j].id = surv[j].id
                    /\ calls[u].args[1][j].text = surv[j].content
                    /\ calls[u].args[1][j].embedding = calls[j + 1].ret.value
          /\ fault.at = "embed" =>
               /\ IsErrorResult(result)
               /\ ups = {}
               /\ store = before

(* the embedding of the middle one of three chunks fails, after the first  *)
(* was embedded                                                            *)
C1_Witness ==
    /\ Ingested
    /\ fault = [at |-> "embed", k |-> 2]
    /\ Len(Surviving(ChunksOf(calls))) = 3
    /\ Cardinality(CallsOf(calls, "generate_embeddings")) = 2
    /\ IsErrorResult(result)
    /\ store = before

(* the records of the document of this call in the partition it names *)
DocumentRecords(st) ==
    { id \in DOMAIN st[TargetPartition] : id[1] = args.document_id }

(* the call before this one had the same arguments, and both succeeded *)
IngestedTwice ==
    /\ Ingested
    /\ first.seen
    /\ Succeeded(first.result)
    /\ Succeeded(result)

(* C2, as claimed: after a document is ingested twice with identical       *)
(* content, both calls wrote the same record ids and the number of records *)
(* stored for the document is the chunk count.                             *)
C2_CountIsChunkCount ==
    IngestedTwice =>
      /\ WrittenIds(calls) = WrittenIds(first.calls)
      /\ Cardinality(DocumentRecords(store)) = Len(ChunksOf(calls))

(* C2, amended: after a document is ingested twice with identical content, *)
(* both calls wrote the same record ids, one for each chunk that was not   *)
(* skipped, every one of them is stored with what the first call stored,   *)
(* and the second call left the index exactly as the first left it.        *)
C2_IdempotentOverwrite ==
    IngestedTwice =>
      /\ WrittenIds(calls) = WrittenIds(first.calls)
      /\ Cardinality(WrittenIds(calls)) = Len(Surviving(ChunksOf(calls)))
      /\ Cardinality(WrittenIds(calls))
            = Len(ChunksOf(calls)) - Len(Skipped(ChunksOf(calls)))
      /\ WrittenIds(calls) \subseteq DocumentRecords(store)
      /\ store = before

(* a document of three chunks, none skipped, ingested twice *)
C2_Witness ==
    /\ IngestedTwice
    /\ Len(ChunksOf(calls)) = 3
    /\ Cardinality(WrittenIds(calls)) = 3
    /\ Cardinality(DocumentRecords(store)) = 3

(* a call in which nothing fails and exactly one chunk is invalid *)
OneInvalidChunk ==
    /\ Ingested
    /\ fault = NoFault
    /\ Len(Skipped(ChunksOf(calls))) = 1

SkipsTheInvalidChunk ==
    LET chunks == ChunksOf(calls)
        bad    == Skipped(chunks)[1]
    IN  /\ warnings = <<bad.id>>
        /\ Cardinality(CallsOf(calls, "generate_embeddings")) = Len(chunks) - 1
        /\ bad.id \notin RecordIds(BatchOf(calls))
        /\ \A i \in CallsOf(calls, "generate_embeddings") : calls[i].args[1] # ""

(* C5, as claimed: when exactly one of the n >= 1 chunks is invalid and    *)
(* nothing fails, the call succeeds, upserts n - 1 records, makes no       *)
(* embedding call and no record for the invalid chunk, and logs a warning  *)
(* for it.                                                                 *)
C5_SucceedsWithOneFewer ==
    OneInvalidChunk =>
      /\ Succeeded(result)
      /\ Len(BatchOf(calls)) = Len(ChunksOf(calls)) - 1
      /\ WrittenIds(calls) = RecordIds(Surviving(ChunksOf(calls)))
      /\ SkipsTheInvalidChunk

(* C5, amended: the same for n >= 2; when the invalid chunk is the only    *)
(* chunk, the warning is logged, nothing is embedded, upsert_records is    *)
(* not called, the index is as it was and the call returns the error       *)
(* "No embedded chunks found".                                             *)
C5_SucceedsWithOneFewerOfTwoOrMore ==
    OneInvalidChunk =>
      /\ SkipsTheInvalidChunk
      /\ Len(ChunksOf(calls)) >= 2 =>
           /\ Succeeded(result)
           /\ Len(BatchOf(calls)) = Len(ChunksOf(calls)) - 1
           /\ WrittenIds(calls) = RecordIds(Surviving(ChunksOf(calls)))
           /\ \A id \in WrittenIds(calls) : id \in DOMAIN store[TargetPartition]
      /\ Len(ChunksOf(calls)) = 1 =>
           /\ result = TextResult(ErrorText("No embedded chunks found"))
           /\ CallsOf(calls, "upsert_records") = {}
           /\ store = before

(* three chunks, the middle one empty: two records written *)
C5_Witness ==
    /\ OneInvalidChunk
    /\ Len(ChunksOf(calls)) = 3
    /\ ChunksOf(calls)[2].content = ""
    /\ Succeeded(result)
    /\ Cardinality(WrittenIds(calls)) = 2
    /\ warnings = <<ChunksOf(calls)[2].id>>

(* C10: no call removes a record: every id a partition held when a request *)
(* arrived is in it when the request is answered; a process-document call  *)
(* that succeeds leaves the ids it did not write with the record they had. *)
C10_NothingRemoved ==
    op # "idle" =>
      /\ \A ns \in Namespaces : DOMAIN before[ns] \subseteq DOMAIN store[ns]
      /\ \A id \in DOMAIN before[TargetPartition] \ WrittenIds(calls) :
            store[TargetPartition][id] = before[TargetPartition][id]

(* a document re-ingested with fewer chunks than before: the records of    *)
(* the higher ordinals are still stored                                    *)
C10_Witness ==
    /\ Ingested
    /\ Succeeded(result)
    /\ Len(ChunksOf(calls)) = 1
    /\ WrittenIds(calls) = {ChunkId(args.document_id, 0)}
    /\ ChunkId(args.document_id, 0) \in DOMAIN before[TargetPartition]
    /\ ChunkId(args.document_id, 2) \in DOMAIN before[TargetPartition]
    /\ ChunkId(args.document_id, 2) \in DOMAIN store[TargetPartition]

----------------------------------------------------------------------------
(* What the claims read of the other calls *)

Searched == op = "semantic-search"

(* C3, as claimed: semantic-search with an empty query returns an error    *)
(* and makes no call to the embedding client or the index.                 *)
C3_EmptyQueryRejected ==
    (Searched /\ args.query = "") =>
      /\ IsErrorResult(result)
      /\ calls = <<>>

IsFailure(r) == IF r.type = "str" THEN IsJsonError(r) ELSE IsErrorResult(r)

(* C4: no exception leaves a handler; whenever an external call of a tool  *)
(* or a resource raised, the handler returned an error result, an          *)
(* "Error: ..." text from a tool and an {"error": ...} document from a     *)
(* resource, and the request was answered.                                 *)
C4_FailuresAreReturned ==
    op # "idle" =>
      /\ ~raised
      /\ result.type = (IF op \in {"get-vector-resource", "list-vectors-resource"}
                        THEN "str" ELSE "text")
      /\ (fault # NoFault \/ \E i \in 1..Len(calls) : ~calls[i].ret.ok) =>
            /\ IsFailure(result)
            /\ \E i \in 1..Len(calls) : ~calls[i].ret.ok
      /\ ENABLED Respond

(* the index refuses the write of a process-document call *)
C4_Witness ==
    /\ Ingested
    /\ fault.at = "upsert"
    /\ ~calls[Len(calls)].ret.ok
    /\ IsErrorResult(result)
    /\ ~raised

OneSided(date_range) ==
    /\ date_range # None
    /\ Keys(date_range[1]) \in {{"start"}, {"end"}}

(* C6: a semantic-search call whose date range has only start, or only     *)
(* end, gives the index the filter of the same call without a date range,  *)
(* which has no date constraint, whatever category and tags are; it        *)
(* returns what the call without a date range returns, and is not          *)
(* rejected for the range.                                                 *)
C6_OneSidedRangeIgnored ==
    (Searched /\ OneSided(args.date_range)) =>
      LET filter == calls[1].args.filter
          cat    == IF args.category = None THEN <<>>
                    ELSE << <<"category", args.category[1]>> >>
          both   == IF args.tags = None THEN cat
                    ELSE Append(cat, <<"tags", [in |-> args.tags[1]]>>)
      IN  /\ calls[1].fn = "search_records"
          /\ "date" \notin Keys(filter)
          /\ filter = both
          /\ \E tie \in {"asc", "desc"} :
               result = semantic_search_tool(before, args.query, args.top_k,
                                             args.namespace, args.category, args.tags,
                                             None, fault, tie).result
          /\ (fault = NoFault /\ args.top_k >= 1) => Succeeded(result)

(* only start is given, with a category and tags, and the search succeeds *)
C6_Witness ==
    /\ Searched
    /\ args.date_range # None
    /\ Keys(args.date_range[1]) = {"start"}
    /\ args.category # None
    /\ args.tags # None
    /\ Keys(calls[1].args.filter) = {"category", "tags"}
    /\ Succeeded(result)

(* the "Result i | Similarity: s | Document ID: id" lines of a text *)
ResultLines(text) == SelectSeq(text, LAMBDA line : line[1] = "Result ")

(* C7: a semantic-search call that succeeds returns at most top_k result   *)
(* blocks, one for each match the index returned and in the index's order, *)
(* numbered from 1, with scores that do not increase.                      *)
C7_AtMostTopKInScoreOrder ==
    (Searched /\ Succeeded(result)) =>
      LET blocks  == ResultLines(result.text)
          matches == calls[1].ret.value.matches
      IN  /\ Len(blocks) <= args.top_k
          /\ Len(blocks) = Len(matches)
          /\ \A i \in 1..Len(blocks) :
               /\ blocks[i][2] = i
               /\ blocks[i][6] = matches[i].id
               /\ blocks[i][4] = (matches[i].score + 5) \div 10
          /\ \A i \in 1..(Len(blocks) - 1) : blocks[i][4] >= blocks[i + 1][4]

(* top_k = 2 against a partition of three records: two blocks, the better  *)
(* score first                                                             *)
C7_Witness ==
    /\ Searched
    /\ Succeeded(result)
    /\ args.top_k = 2
    /\ args.category = None /\ args.tags = None /\ args.date_range = None
    /\ Cardinality(DOMAIN before[TargetPartition]) = 3
    /\ Len(ResultLines(result.text)) = 2
    /\ ResultLines(result.text)[1][4] > ResultLines(result.text)[2][4]

(* C8, as claimed: read-document in the default partition and the          *)
(* fetch-by-id resource return the same text for a stored id, and each its *)
(* not-found message for an id that is not stored.                         *)
C8_ResourceMatchesReadDocument ==
    (op = "read-document" /\ args.namespace = None /\ fault = NoFault) =>
      LET resource == get_vector_resource(store, args.document_id, NoFault).result
      IN  IF args.document_id \in DOMAIN store[DefaultNamespace]
          THEN result.text = resource.text
          ELSE /\ result.text = << <<"Document ", args.document_id, " not found">> >>
               /\ resource.text = JsonError(<<"Vector not found: ", args.document_id>>)

ReadOps == {"semantic-search", "read-document", "list-documents",
            "get-vector-resource", "list-vectors-resource"}

(* the records an index call returned *)
ReturnedRecords(call) ==
    IF ~call.ret.ok THEN {}
    ELSE IF call.fn = "search_records"
    THEN { [id |-> call.ret.value.matches[i].id,
            metadata |-> call.ret.value.matches[i].metadata] :
              i \in 1..Len(call.ret.value.matches) }
    ELSE IF call.fn = "fetch_records"
    THEN { [id |-> id, metadata |-> call.ret.value[id].metadata] :
              id \in DOMAIN call.ret.value }
    ELSE IF call.fn = "list_records"
    THEN { call.ret.value.vectors[i] : i \in 1..Len(call.ret.value.vectors) }
    ELSE {}

(* C9: a process-document call changes no partition but the one its        *)
(* namespace names, the default one when it names none; a search, read or  *)
(* list call changes nothing and every record the index returns to it is   *)
(* a record of the partition the call names, the default one for the       *)
(* resources, which take no namespace.                                     *)
C9_OnePartition ==
    /\ Ingested =>
         \A ns \in Namespaces \ {TargetPartition} : store[ns] = before[ns]
    /\ op \in ReadOps =>
         /\ store = before
         /\ \A i \in 1..Len(calls) : \A r \in ReturnedRecords(calls[i]) :
              /\ r.id \in DOMAIN before[TargetPartition]
              /\ r.metadata = before[TargetPartition][r.id].metadata

(* a document is written to n1 while the default partition holds another   *)
(* record, which stays                                                     *)
C9_Witness ==
    /\ Ingested
    /\ Succeeded(result)
    /\ args.namespace = Some("n1")
    /\ store["n1"] # before["n1"]
    /\ before[DefaultNamespace] # <<>>
    /\ DOMAIN store[DefaultNamespace] # DOMAIN store["n1"]

====
